---------------------------- MODULE Spec2Model ----------------------------
(***************************************************************************)
(* Currency-safe money arithmetic of django-shop (shop/money/money_maker). *)
(*                                                                         *)
(* MoneyMaker(code) builds a class MoneyIn<code> deriving from Decimal;    *)
(* its instances are decimals tagged with the class.  A decimal is         *)
(* modelled by the four slots of Python's decimal.Decimal (_sign, _int,    *)
(* _exp, _is_special); the coefficient _int, a digit string without        *)
(* leading zeros, is modelled by the natural number it denotes.  Numeric   *)
(* strings are sequences of one-character strings.                         *)
(*                                                                         *)
(* The registry of serializer classes of shop/rest/serializers is modelled *)
(* in a specification of its own, and so are threads calling MoneyMaker.   *)
(***************************************************************************)
EXTENDS Integers, Sequences, FiniteSets, TLC

VARIABLES
    calls,   \* log of the MoneyMaker calls so far: argument and outcome
    x,       \* left operand / receiver of the operation under study
    y,       \* right operand / argument of the operation under study
    res,     \* the last operation applied and its outcome
    _serializer_classes,  \* RegistryMetaclass._serializer_classes
    threads  \* the threads inside MoneyMaker, each with its local variables

vars == <<calls, x, y, res, _serializer_classes, threads>>

-----------------------------------------------------------------------------
(* Bounds of the model *)

\* largest coefficient of a drawn operand of the arithmetic specification
MaxInt == 2
\* operands of the arithmetic specification have exponents -MaxScale..0
MaxScale == 2
\* largest coefficient of a value of the conversion specification
MaxCoeff == 135
\* values of the conversion specification have exponents -MaxFrac..MaxExp
MaxFrac == 3
\* largest (positive) exponent of a value of the conversion specification
MaxExp == 1
\* number of MoneyMaker calls a behaviour makes, those of the set-up included
MaxCalls == 4
\* number of serializer classes a behaviour defines
MaxDefs == 5
\* number of threads calling MoneyMaker
MaxThreads == 2
\* number of MoneyMaker calls the threads make
MaxThreadCalls == 3

-----------------------------------------------------------------------------
(* Outcomes of a call: a returned value or a raised exception *)

Ok(v) == [ok |-> TRUE, val |-> v]

Raise(e) == [ok |-> FALSE, err |-> e]

\* try: o, except: the value d
OrElse(o, d) == IF o.ok THEN o.val ELSE d

\* try: o, except Exception: raise e
Reraise(o, e) == IF o.ok THEN o ELSE Raise(e)

\* the rest of a handler after a call: an exception the call raised is
\* raised by the handler, a value it returned is handed on
Then(o, F(_)) == IF o.ok THEN F(o.val) ELSE o

ErrAddable == "ValueError: Can not add/substract money in different currencies."

ErrRsub == "ValueError: Can not substract money from something else."

ErrMultipliable == "ValueError: Can not multiply currencies."

ErrDividable == "ValueError: Can not divide through a currency."

ErrPow == "ValueError: Can not raise currencies to their power."

\* django.core.exceptions.ImproperlyConfigured, raised by RegistryMetaclass
ErrImproperlyConfigured == "ImproperlyConfigured"

\* KeyError raised by a dict for a key it lacks
ErrKeyError == "KeyError"

ErrNewMoney == "ValueError: (error raised by Decimal.__new__)"

ErrUnknownCurrency == "ValueError: unknown currency code"

ErrAssert == "AssertionError"

\* decimal.DivisionByZero, raised by the decimal module itself
ErrDivisionByZero == "decimal.DivisionByZero"

\* ValueError raised by Decimal.__int__ for a NaN
ErrNaNToInteger == "ValueError: Cannot convert NaN to integer"

\* decimal.InvalidOperation, raised by the decimal module itself
ErrInvalidOperation == "decimal.InvalidOperation"

-----------------------------------------------------------------------------
(* decimal.Decimal: representation *)

Dec(sign, int, exp) ==
    [is_special |-> FALSE, sign |-> sign, int |-> int, exp |-> exp]

\* Decimal('NaN'): a quiet NaN without diagnostic digits
DecNaN == [is_special |-> TRUE, sign |-> 0, int |-> 0, exp |-> 0]

is_nan(d) == d.is_special

RECURSIVE Pow10(_)
Pow10(n) == IF n <= 0 THEN 1 ELSE 10 * Pow10(n - 1)

Min(a, b) == IF a <= b THEN a ELSE b

\* the signed coefficient of a finite decimal scaled to exponent e <= d.exp
Scaled(d, e) == (IF d.sign = 1 THEN -1 ELSE 1) * d.int * Pow10(d.exp - e)

Sign(n) == IF n < 0 THEN -1 ELSE IF n > 0 THEN 1 ELSE 0

Abs(n) == IF n < 0 THEN -n ELSE n

\* the decimal of a signed coefficient; a zero coefficient is positive
FromSigned(n, exp) == Dec(IF n < 0 THEN 1 ELSE 0, Abs(n), exp)

\* Decimal._cmp on finite decimals: -1, 0 or 1 by numerical value
DecCmp(a, b) == Sign(Scaled(a, Min(a.exp, b.exp)) - Scaled(b, Min(a.exp, b.exp)))

\* Decimal.__add__ on finite decimals; exp is the smaller exponent.  A zero
\* operand leaves the other one, rescaled; the sum of two zeros has the
\* smaller sign; equal and opposite operands give the positive zero
AddFinite(a, b, exp) ==
    IF a.int = 0 /\ b.int = 0
    THEN Dec(Min(a.sign, b.sign), 0, exp)
    ELSE IF a.int = 0
    THEN Dec(b.sign, b.int * Pow10(b.exp - exp), exp)
    ELSE IF b.int = 0
    THEN Dec(a.sign, a.int * Pow10(a.exp - exp), exp)
    ELSE FromSigned(Scaled(a, exp) + Scaled(b, exp), exp)

\* Decimal.__add__(self, other, context) under the default context
DecAdd(a, b) ==
    IF a.is_special \/ b.is_special
    THEN DecNaN
    ELSE AddFinite(a, b, Min(a.exp, b.exp))

\* Decimal.copy_negate(self)
copy_negate(d) == [d EXCEPT !.sign = 1 - d.sign]

\* Decimal.__neg__(self, context): the negation of a zero is the positive zero
DecNeg(d) ==
    IF d.is_special THEN DecNaN
    ELSE IF d.int = 0 THEN [d EXCEPT !.sign = 0]
    ELSE copy_negate(d)

\* Decimal.__mul__(self, other, context) on two decimals
DecMul(a, b) ==
    IF a.is_special \/ b.is_special
    THEN DecNaN
    ELSE Dec((a.sign + b.sign) % 2, a.int * b.int, a.exp + b.exp)

RECURSIVE ExactQuotient(_, _, _, _)
\* Decimal.__truediv__ on non-zero coefficients n and m whose quotient has
\* finitely many digits: the quotient with the exponent nearest to the ideal
\* exponent exp from below
ExactQuotient(sign, n, m, exp) ==
    IF n % m = 0 THEN Dec(sign, n \div m, exp)
    ELSE ExactQuotient(sign, 10 * n, m, exp - 1)

\* Decimal.__truediv__(self, other, context) on two decimals, which is
\* Decimal.__div__ as well; a zero divisor signals DivisionUndefined (an
\* InvalidOperation) for a zero dividend and DivisionByZero otherwise.  The
\* divisors drawn have the prime factors 2 and 5 alone, so every quotient is
\* exact and shorter than the precision of the context
DecDiv(a, b) ==
    IF a.is_special \/ b.is_special THEN Ok(DecNaN)
    ELSE IF b.int = 0
    THEN Raise(IF a.int = 0 THEN ErrInvalidOperation ELSE ErrDivisionByZero)
    ELSE IF a.int = 0 THEN Ok(Dec((a.sign + b.sign) % 2, 0, a.exp - b.exp))
    ELSE Ok(ExactQuotient((a.sign + b.sign) % 2, a.int, b.int, a.exp - b.exp))

\* Decimal._round_half_up: n / unit rounded to the nearest integer, a tie
\* away from zero
RoundHalfUp(n, unit) ==
    IF 2 * (n % unit) >= unit THEN (n \div unit) + 1 ELSE n \div unit

\* Decimal._round_half_even: n / unit rounded to the nearest integer, a tie
\* to the even one
RoundHalfEven(n, unit) ==
    IF 2 * (n % unit) > unit
       \/ (2 * (n % unit) = unit /\ (n \div unit) % 2 = 1)
    THEN (n \div unit) + 1
    ELSE n \div unit

\* Decimal._rescale(exp, ROUND_HALF_EVEN) of a finite decimal
Rescale(d, exp) ==
    IF d.int = 0 THEN Dec(d.sign, 0, exp)
    ELSE IF d.exp >= exp THEN Dec(d.sign, d.int * Pow10(d.exp - exp), exp)
    ELSE Dec(d.sign, RoundHalfEven(d.int, Pow10(exp - d.exp)), exp)

\* Decimal.quantize(self, exp) under the default context (ROUND_HALF_EVEN)
DecQuantize(d, e) ==
    IF d.is_special \/ e.is_special THEN DecNaN ELSE Rescale(d, e.exp)

-----------------------------------------------------------------------------
(* decimal.Decimal: conversion to and from strings *)

DigitChars == <<"0", "1", "2", "3", "4", "5", "6", "7", "8", "9">>

IsDigit(c) == \E i \in 1..10 : DigitChars[i] = c

DigitVal(c) == (CHOOSE i \in 1..10 : DigitChars[i] = c) - 1

RECURSIVE IntToStr(_)
\* str(n) of a natural number
IntToStr(n) ==
    IF n < 10 THEN <<DigitChars[n + 1]>>
    ELSE IntToStr(n \div 10) \o <<DigitChars[(n % 10) + 1]>>

RECURSIVE StrToInt(_)
\* int(s) of a digit string; int('') does not occur: callers pass a digit
StrToInt(s) ==
    IF Len(s) = 0 THEN 0
    ELSE 10 * StrToInt(SubSeq(s, 1, Len(s) - 1)) + DigitVal(s[Len(s)])

RECURSIVE Zeros(_)
\* '0' * n
Zeros(n) == IF n <= 0 THEN <<>> ELSE <<"0">> \o Zeros(n - 1)

\* Decimal.__str__: the digits int, with dotplace of them before the point
\* and the exponent e
StrFinite(int, dotplace, e) ==
    (IF dotplace <= 0 THEN <<"0", ".">> \o Zeros(-dotplace) \o int
     ELSE IF dotplace >= Len(int) THEN int \o Zeros(dotplace - Len(int))
     ELSE SubSeq(int, 1, dotplace) \o <<".">>
          \o SubSeq(int, dotplace + 1, Len(int)))
    \o (IF e = 0 THEN <<>>
        ELSE <<"E">> \o (IF e < 0 THEN <<"-">> ELSE <<"+">>)
             \o IntToStr(Abs(e)))

\* Decimal.__str__: leftdigits is the number of digits left of the point;
\* no exponent is needed when _exp <= 0 and leftdigits > -6
StrDigits(int, exp, leftdigits) ==
    IF exp <= 0 /\ leftdigits > -6
    THEN StrFinite(int, leftdigits, 0)
    ELSE StrFinite(int, 1, leftdigits - 1)

\* Decimal.__str__(self): the scientific string of the decimal
DecStr(d) ==
    (IF d.sign = 1 THEN <<"-">> ELSE <<>>)
    \o (IF d.is_special THEN <<"N", "a", "N">>
        ELSE StrDigits(IntToStr(d.int), d.exp,
                       d.exp + Len(IntToStr(d.int))))

RECURSIVE DigitRun(_, _)
\* the length of the longest run of digits of s that starts at index i
DigitRun(s, i) ==
    IF i <= Len(s) /\ IsDigit(s[i]) THEN 1 + DigitRun(s, i + 1) ELSE 0

\* decimal._parser, the exponent: b[p] is the first character after the
\* mantissa, whose digits (integer and fractional part) are given; the
\* exponent is E, an optional sign and one digit at least, up to the end
ParseExponent(sign, b, digits, fracLen, p) ==
    IF p > Len(b)
    THEN Ok(Dec(sign, StrToInt(digits), -fracLen))
    ELSE IF b[p] = "E" /\ p + 1 <= Len(b) /\ b[p + 1] \in {"-", "+"}
            /\ DigitRun(b, p + 2) >= 1 /\ p + 1 + DigitRun(b, p + 2) = Len(b)
    THEN Ok(Dec(sign, StrToInt(digits),
                (IF b[p + 1] = "-" THEN -1 ELSE 1)
                    * StrToInt(SubSeq(b, p + 2, Len(b))) - fracLen))
    ELSE IF b[p] = "E" /\ DigitRun(b, p + 1) >= 1
            /\ p + DigitRun(b, p + 1) = Len(b)
    THEN Ok(Dec(sign, StrToInt(digits),
                StrToInt(SubSeq(b, p + 1, Len(b))) - fracLen))
    ELSE Raise(ErrInvalidOperation)

\* decimal._parser, the mantissa: intLen digits, then an optional point
\* and fracLen digits; one digit at least
ParseMantissa(sign, b, intLen, hasDot, fracLen) ==
    IF intLen + fracLen = 0
    THEN Raise(ErrInvalidOperation)
    ELSE ParseExponent(sign, b,
             SubSeq(b, 1, intLen)
                 \o SubSeq(b, intLen + 2, intLen + 1 + fracLen),
             fracLen,
             intLen + (IF hasDot THEN 1 + fracLen ELSE 0) + 1)

\* decimal._parser after the sign: NaN, or a number
ParseUnsigned(sign, b, intLen) ==
    IF b = <<"N", "a", "N">>
    THEN Ok([DecNaN EXCEPT !.sign = sign])
    ELSE IF intLen + 1 <= Len(b) /\ b[intLen + 1] = "."
    THEN ParseMantissa(sign, b, intLen, TRUE, DigitRun(b, intLen + 2))
    ELSE ParseMantissa(sign, b, intLen, FALSE, 0)

\* the parser without the sign
DecParse_unsigned(s) == ParseUnsigned(0, s, DigitRun(s, 1))

\* Decimal.__new__(cls, <str>): decimal._parser and the slots built from its
\* groups; a string the parser rejects raises InvalidOperation
DecParse(s) ==
    IF Len(s) > 0 /\ s[1] \in {"-", "+"}
    THEN ParseUnsigned(IF s[1] = "-" THEN 1 ELSE 0, Tail(s),
                       DigitRun(Tail(s), 1))
    ELSE ParseUnsigned(0, s, DigitRun(s, 1))

-----------------------------------------------------------------------------
(* Python values *)

PyNone == [ty |-> "None"]

\* the marker of an omitted argument with a default
NoArg == [ty |-> "NoArg"]

PyInt(n) == [ty |-> "int", n |-> n]

\* a float, given by float.as_integer_ratio(): n / 2^k in lowest terms
PyFloat(n, k) == [ty |-> "float", n |-> n, k |-> k]

PyStr(s) == [ty |-> "str", s |-> s]

PyBool(b) == [ty |-> "bool", b |-> b]

\* an instance of object, which no conversion knows
PyObject == [ty |-> "object"]

\* a unicode string: a sequence of pieces of text
PyUnicode(s) == [ty |-> "unicode", s |-> s]

\* a plain decimal.Decimal
PyDecimal(d) == [ty |-> "Decimal", d |-> d]

\* an instance of the class cls built by MoneyMaker
Money(cls, d) == [ty |-> "Money", cls |-> cls, d |-> d]

\* isinstance(v, Decimal)
IsDecimal(v) == v.ty \in {"Decimal", "Money"}

\* isinstance(v, cls) for a class built by MoneyMaker
IsInstance(v, cls) == v.ty = "Money" /\ v.cls.id = cls.id

\* hasattr(v, '_currency_code')
HasCurrencyCode(v) == v.ty = "Money"

\* getattr(v, '_currency_code', None)
GetCurrencyCode(v) == IF v.ty = "Money" THEN v.cls._currency_code ELSE "None"

RECURSIVE Pow5(_)
Pow5(n) == IF n <= 0 THEN 1 ELSE 5 * Pow5(n - 1)

\* Decimal(<float>) = Decimal.from_float: the exact value n * 5^k * 10^-k
DecFromFloat(v) ==
    Dec(IF v.n < 0 THEN 1 ELSE 0,
        (IF v.n < 0 THEN -v.n ELSE v.n) * Pow5(v.k), -v.k)

\* Decimal.__new__(cls, value, context) for a value that is no Decimal
DecimalNew(value) ==
    CASE value.ty = "str"   -> DecParse(value.s)
      [] value.ty = "int"   ->
            Ok(Dec(IF value.n < 0 THEN 1 ELSE 0,
                   IF value.n < 0 THEN -value.n ELSE value.n, 0))
      [] value.ty = "float" -> Ok(DecFromFloat(value))
      [] OTHER              -> Raise("TypeError: Cannot convert to Decimal")

-----------------------------------------------------------------------------
(* The currency table shop/money/iso4217.py: code -> (number, minor digits, *)
(* symbol, name)                                                           *)

Codes == {"EUR", "USD", "JPY"}

CURRENCIES ==
    [c \in Codes |->
        CASE c = "EUR" -> <<"978", 2, "EUR-symbol", "Euro">>
          [] c = "USD" -> <<"840", 2, "USD-symbol", "US Dollar">>
          [] c = "JPY" -> <<"392", 0, "JPY-symbol", "Yen">>]

\* shop_settings.MONEY_FORMAT: a unicode template with the placeholders
\* {amount}, {code}, {symbol} and {currency}, here as its pieces
MONEY_FORMAT ==
    <<"{symbol}", " ", "{amount}", " ", "{code}", " (", "{currency}", ")">>

\* shop_settings.DEFAULT_CURRENCY
DEFAULT_CURRENCY == "EUR"

\* the currency codes MoneyMaker is called with
CodeArgs == {"EUR", "eur", "USD", "JPY", "XXX"}

\* str.upper() leaving the code as it is given
upper_as_given(c) == c

\* str.upper() on the codes drawn
upper(c) == IF c = "eur" THEN "EUR" ELSE c

-----------------------------------------------------------------------------
(* MoneyMaker *)

\* the quantum of a currency without decimal places, for every currency
Cents_no_places(currency_code) == Dec(0, 0, 0)

\* MoneyMaker.__new__, lines 202-206: the quantum '.00' of the currency, or
\* Decimal() when the currency has no decimal places and '.' does not parse
Cents(currency_code) ==
    OrElse(DecParse(<<".">> \o Zeros(CURRENCIES[currency_code][2])),
           Dec(0, 0, 0))

\* MoneyMaker.__new__, lines 198-210: the class of the normalized code
NewClass(currency_code, id) ==
    IF currency_code \notin DOMAIN CURRENCIES
    THEN Raise(ErrUnknownCurrency)
    ELSE Ok([id             |-> id,
             name           |-> <<"MoneyIn", currency_code>>,
             _currency_code |-> currency_code,
             _currency      |-> CURRENCIES[currency_code],
             _cents         |-> Cents(currency_code)])

\* MoneyMaker.__new__ without the normalization to upper case
MoneyMaker_as_given(currency_code, id) ==
    NewClass(IF currency_code = "None" THEN DEFAULT_CURRENCY
             ELSE currency_code, id)

\* MoneyMaker.__new__ falling back to the default currency for a code the
\* table lacks
MoneyMaker_default_on_unknown(currency_code, id) ==
    NewClass(IF currency_code = "None"
                \/ upper(currency_code) \notin DOMAIN CURRENCIES
             THEN DEFAULT_CURRENCY
             ELSE upper(currency_code), id)

\* MoneyMaker.__new__(cls, currency_code): the class built, or the error.
\* id is the identity of the new class object: every call builds a class.
MoneyMaker(currency_code, id) ==
    NewClass(IF currency_code = "None" THEN DEFAULT_CURRENCY
             ELSE upper(currency_code), id)

\* new_money taking an absent value for the amount zero
new_money_absent_is_zero(cls, value) ==
    IF IsInstance(value, cls) /\ cls._currency_code # value.cls._currency_code
    THEN Raise(ErrAssert)
    ELSE IF IsInstance(value, cls) \/ IsDecimal(value)
    THEN Ok(Money(cls, value.d))
    ELSE Then(Reraise(DecimalNew(IF value.ty \in {"None", "NoArg"}
                                 THEN PyStr(<<"0">>) ELSE value),
                      ErrNewMoney),
              LAMBDA d : Ok(Money(cls, d)))

\* new_money rounding the copy of a decimal to the quantum of the class
new_money_requantized(cls, value) ==
    IF IsInstance(value, cls) /\ cls._currency_code # value.cls._currency_code
    THEN Raise(ErrAssert)
    ELSE IF IsInstance(value, cls) \/ IsDecimal(value)
    THEN Ok(Money(cls, DecQuantize(value.d, cls._cents)))
    ELSE Then(Reraise(DecimalNew(IF value.ty \in {"None", "NoArg"}
                                 THEN PyStr(<<"N", "a", "N">>) ELSE value),
                      ErrNewMoney),
              LAMBDA d : Ok(Money(cls, d)))

\* new_money(cls, value='NaN', context=None): the __new__ of a money class
new_money(cls, value) ==
    IF IsInstance(value, cls) /\ cls._currency_code # value.cls._currency_code
    THEN Raise(ErrAssert)
    ELSE IF IsInstance(value, cls) \/ IsDecimal(value)
    THEN Ok(Money(cls, value.d))
    ELSE Then(Reraise(DecimalNew(IF value.ty \in {"None", "NoArg"}
                                 THEN PyStr(<<"N", "a", "N">>) ELSE value),
                      ErrNewMoney),
              LAMBDA d : Ok(Money(cls, d)))

-----------------------------------------------------------------------------
(* AbstractMoney *)

\* a zero test that knows ints only
IsNumberZero_int_only(other) == other.ty = "int" /\ other.n = 0

\* a zero test that takes a plain decimal zero as well
IsNumberZero_or_decimal_zero(other) ==
    \/ other.ty \in {"int", "float"} /\ other.n = 0
    \/ other.ty = "Decimal" /\ ~other.d.is_special /\ other.d.int = 0

\* other == 0 for an int or a float
IsNumberZero(other) == other.ty \in {"int", "float"} /\ other.n = 0

\* _assert_addable without the test of the currency codes
_assert_addable_any_currency(self, other) ==
    IF other.ty # "Money"
    THEN Raise(ErrAddable)
    ELSE IF is_nan(other.d)
    THEN new_money(self.cls, PyStr(<<"0">>))
    ELSE Ok(other)

\* _assert_addable asking for an operand of self's own class
_assert_addable_same_class(self, other) ==
    IF IsNumberZero(other)
    THEN new_money(self.cls, PyStr(<<"0">>))
    ELSE IF ~IsInstance(other, self.cls)
    THEN Raise(ErrAddable)
    ELSE IF is_nan(other.d)
    THEN new_money(self.cls, PyStr(<<"0">>))
    ELSE Ok(other)

\* _assert_addable handing on an undefined operand as it is
_assert_addable_keeps_nan(self, other) ==
    IF IsNumberZero(other)
    THEN new_money(self.cls, PyStr(<<"0">>))
    ELSE IF self.cls._currency_code # GetCurrencyCode(other)
    THEN Raise(ErrAddable)
    ELSE Ok(other)

\* _assert_addable testing for an undefined operand before the currencies
_assert_addable_nan_first(self, other) ==
    IF IsNumberZero(other)
    THEN new_money(self.cls, PyStr(<<"0">>))
    ELSE IF IsDecimal(other) /\ is_nan(other.d)
    THEN new_money(self.cls, PyStr(<<"0">>))
    ELSE IF self.cls._currency_code # GetCurrencyCode(other)
    THEN Raise(ErrAddable)
    ELSE Ok(other)

\* AbstractMoney._assert_addable(self, other)
_assert_addable(self, other) ==
    IF IsNumberZero(other)
    THEN new_money(self.cls, PyStr(<<"0">>))
    ELSE IF self.cls._currency_code # GetCurrencyCode(other)
    THEN Raise(ErrAddable)
    ELSE IF is_nan(other.d)
    THEN new_money(self.cls, PyStr(<<"0">>))
    ELSE Ok(other)

\* __add__ without the test for an undefined self
__add___always_decimal(self, other) ==
    Then(_assert_addable(self, other),
         LAMBDA o : new_money(self.cls, PyDecimal(DecAdd(self.d, o.d))))

\* AbstractMoney.__add__(self, other, context)
__add__(self, other) ==
    Then(_assert_addable(self, other),
         LAMBDA o : new_money(self.cls,
                              IF ~is_nan(self.d)
                              THEN PyDecimal(DecAdd(self.d, o.d))
                              ELSE o))

\* AbstractMoney.__radd__(self, other, context)
__radd__(self, other) == __add__(self, other)

\* AbstractMoney.__sub__(self, other, context)
__sub__(self, other) ==
    Then(_assert_addable(self, other),
         LAMBDA o : new_money(self.cls,
                              PyDecimal(DecAdd(self.d, copy_negate(o.d)))))

\* __rsub__ taking the literal zero as _assert_addable does
__rsub___zero_exempt(self, other) ==
    IF IsNumberZero(other)
    THEN new_money(self.cls, PyDecimal(DecNeg(self.d)))
    ELSE Raise(ErrRsub)

\* AbstractMoney.__rsub__(self, other, context)
__rsub__(self, other) == Raise(ErrRsub)

\* __neg__ handing on the plain decimal of Decimal.__neg__
__neg___plain(self) == Ok(PyDecimal(DecNeg(self.d)))

\* AbstractMoney.__neg__(self, context)
__neg__(self) == new_money(self.cls, PyDecimal(DecNeg(self.d)))

\* _assert_multipliable without the test for a currency
_assert_multipliable_any(self, other) ==
    IF other.ty = "float" THEN Ok(PyDecimal(DecFromFloat(other)))
    ELSE Ok(other)

\* AbstractMoney._assert_multipliable(self, other)
_assert_multipliable(self, other) ==
    IF HasCurrencyCode(other) THEN Raise(ErrMultipliable)
    ELSE IF other.ty = "float" THEN Ok(PyDecimal(DecFromFloat(other)))
    ELSE Ok(other)

\* Decimal.__mul__(self, other, context): other is converted by
\* _convert_other, which knows ints and decimals only
DecimalMul(self, other) ==
    CASE other.ty = "int"  -> PyDecimal(DecMul(self.d, DecimalNew(other).val))
      [] IsDecimal(other)  -> PyDecimal(DecMul(self.d, other.d))
      [] OTHER             -> [ty |-> "NotImplemented"]

\* __mul__ without the test for None
__mul___none_unhandled(self, other) ==
    Then(_assert_multipliable(self, other),
         LAMBDA o : new_money(self.cls, DecimalMul(self, o)))

\* AbstractMoney.__mul__(self, other, context)
__mul__(self, other) ==
    IF other.ty = "None"
    THEN new_money(self.cls, PyStr(<<"N", "a", "N">>))
    ELSE Then(_assert_multipliable(self, other),
              LAMBDA o : new_money(self.cls, DecimalMul(self, o)))

\* AbstractMoney.__rmul__(self, other, context)
__rmul__(self, other) == __mul__(self, other)

\* _assert_dividable without the test for a currency
_assert_dividable_any(self, other) ==
    IF other.ty = "float" THEN Ok(PyDecimal(DecFromFloat(other)))
    ELSE Ok(other)

\* AbstractMoney._assert_dividable(self, other)
_assert_dividable(self, other) ==
    IF HasCurrencyCode(other) THEN Raise(ErrDividable)
    ELSE IF other.ty = "float" THEN Ok(PyDecimal(DecFromFloat(other)))
    ELSE Ok(other)

\* Decimal.__div__(self, other, context) and Decimal.__truediv__: other is
\* converted by _convert_other, which knows ints and decimals only
DecimalDiv(self, other) ==
    CASE other.ty = "int"  ->
            Then(DecDiv(self.d, DecimalNew(other).val),
                 LAMBDA q : Ok(PyDecimal(q)))
      [] IsDecimal(other)  ->
            Then(DecDiv(self.d, other.d), LAMBDA q : Ok(PyDecimal(q)))
      [] OTHER             -> Ok([ty |-> "NotImplemented"])

\* AbstractMoney.__div__(self, other, context)
__div__(self, other) ==
    Then(_assert_dividable(self, other),
         LAMBDA o : Then(DecimalDiv(self, o),
                         LAMBDA amount : new_money(self.cls, amount)))

\* AbstractMoney.__rdiv__(self, other, context)
__rdiv__(self, other) == Raise(ErrDividable)

\* AbstractMoney.__truediv__(self, other, context)
__truediv__(self, other) ==
    Then(_assert_dividable(self, other),
         LAMBDA o : Then(DecimalDiv(self, o),
                         LAMBDA amount : new_money(self.cls, amount)))

\* AbstractMoney.__rtruediv__(self, other, context)
__rtruediv__(self, other) == Raise(ErrDividable)

\* __pow__ handing a value raised to the power 1 back
__pow___of_one(self, other) ==
    IF other = PyInt(1) THEN Ok(self) ELSE Raise(ErrPow)

\* AbstractMoney.__pow__(self, other, context)
__pow__(self, other) == Raise(ErrPow)

\* Decimal._convert_other(other, allow_float=True): the decimal compared
\* with; other types are not converted
ConvertOther(other) ==
    CASE IsDecimal(other)     -> Ok(other.d)
      [] other.ty = "int"     -> DecimalNew(other)
      [] other.ty = "float"   -> Ok(DecFromFloat(other))
      [] OTHER                -> Raise("NotImplemented")

CompareOps == {"<", "<=", "==", ">", ">="}

\* Decimal.__lt__, __le__, __eq__, __gt__, __ge__ on two decimals: the money
\* classes define no comparison and inherit these.  An ordering comparison
\* with a NaN signals InvalidOperation, an equality with a NaN is False.
DecimalCompare(op, a, b) ==
    IF a.is_special \/ b.is_special
    THEN IF op = "==" THEN Ok(PyBool(FALSE)) ELSE Raise(ErrInvalidOperation)
    ELSE Ok(PyBool(CASE op = "<"  -> DecCmp(a, b) < 0
                     [] op = "<=" -> DecCmp(a, b) <= 0
                     [] op = "==" -> DecCmp(a, b) = 0
                     [] op = ">"  -> DecCmp(a, b) > 0
                     [] op = ">=" -> DecCmp(a, b) >= 0))

\* the outcomes of `self <op> other` for a money value self: when Decimal
\* does not convert other, == falls back to identity and an ordering to the
\* interpreter's arbitrary order of unrelated types
CompareOutcomes(op, self, other) ==
    IF ConvertOther(other).ok
    THEN {DecimalCompare(op, self.d, ConvertOther(other).val)}
    ELSE IF op = "==" THEN {Ok(PyBool(FALSE))}
    ELSE {Ok(PyBool(b)) : b \in BOOLEAN}

\* a == b as Python evaluates it on two decimals
DecEq(a, b) == DecimalCompare("==", a, b) = Ok(PyBool(TRUE))

\* as_decimal handing on the amount as it is
as_decimal_unquantized(self) == PyDecimal(self.d)

\* AbstractMoney.as_decimal(self)
as_decimal(self) == PyDecimal(DecQuantize(self.d, self.cls._cents))

\* subunits of a currency without decimal places, for every currency
subunits_one(cls) == 1

\* AbstractMoney.subunits(cls)
subunits(cls) == Pow10(CURRENCIES[cls._currency_code][2])

\* Decimal.__int__(self): the amount truncated towards zero; a NaN has none
DecInt(d) ==
    IF d.is_special THEN Raise(ErrNaNToInteger)
    ELSE Ok(PyInt((IF d.sign = 1 THEN -1 ELSE 1)
                  * (IF d.exp >= 0 THEN d.int * Pow10(d.exp)
                     ELSE d.int \div Pow10(-d.exp))))

\* AbstractMoney.as_integer(self)
as_integer(self) ==
    DecInt(DecimalMul(as_decimal(self), PyInt(subunits(self.cls))).d)

\* the character EN DASH, u'–'
EnDash == "U+2013"

\* one piece of a template formatted: a placeholder gives its value
FormatPiece(piece, vals) ==
    CASE piece = "{amount}"   -> vals.amount
      [] piece = "{code}"     -> vals.code
      [] piece = "{symbol}"   -> vals.symbol
      [] piece = "{currency}" -> vals.currency
      [] OTHER                -> <<piece>>

RECURSIVE StrFormat(_, _)
\* template.format(**vals)
StrFormat(template, vals) ==
    IF Len(template) = 0 THEN <<>>
    ELSE FormatPiece(Head(template), vals) \o StrFormat(Tail(template), vals)

\* dict(code=..., symbol=..., currency=..., amount=amount)
FormatVals(self, amount) ==
    [code     |-> <<self.cls._currency_code>>,
     symbol   |-> <<self.cls._currency[3]>>,
     currency |-> <<self.cls._currency[4]>>,
     amount   |-> amount]

\* __unicode__ without the placeholder of the undefined amount
__unicode___no_placeholder(self) ==
    Ok(PyUnicode(StrFormat(MONEY_FORMAT,
           FormatVals(self, DecStr(DecQuantize(self.d, self.cls._cents))))))

\* AbstractMoney.__unicode__(self); the amounts drawn are short of the
\* precision of the context, so quantize raises no InvalidOperation
__unicode__(self) ==
    IF is_nan(self.d)
    THEN Ok(PyUnicode(StrFormat(MONEY_FORMAT, FormatVals(self, <<EnDash>>))))
    ELSE Ok(PyUnicode(StrFormat(MONEY_FORMAT,
             FormatVals(self, DecStr(DecQuantize(self.d, self.cls._cents))))))

\* the UTF-8 bytes of one piece of text: the pieces other than the dash and
\* the symbols of the euro and the yen are ASCII
Utf8Piece(piece) ==
    CASE piece = EnDash       -> <<"xE2", "x80", "x93">>
      [] piece = "EUR-symbol" -> <<"xE2", "x82", "xAC">>
      [] piece = "JPY-symbol" -> <<"xC2", "xA5">>
      [] OTHER                -> <<piece>>

RECURSIVE Utf8(_)
\* unicode.encode('utf-8')
Utf8(s) == IF Len(s) = 0 THEN <<>> ELSE Utf8Piece(Head(s)) \o Utf8(Tail(s))

\* AbstractMoney.__str__(self)
__str__(self) == Then(__unicode__(self), LAMBDA u : Ok(PyStr(Utf8(u.s))))

\* the format specifiers drawn: the empty one of format(v) and '{}'
Specifiers == {<<>>}

\* AbstractMoney.__format__(self, specifier) with no context: under the
\* empty specifier Decimal.__format__ gives the digits of Decimal.__str__
__format__(self, specifier) ==
    Ok(PyUnicode(StrFormat(MONEY_FORMAT,
          FormatVals(self, IF is_nan(self.d) THEN <<EnDash>>
                           ELSE DecStr(DecQuantize(self.d, self.cls._cents))))))

\* __reduce__ handing on the quantized amount
__reduce___quantized(self) ==
    <<self.cls._currency_code, DecStr(as_decimal(self).d)>>

\* AbstractMoney.__reduce__(self): the arguments _make_money is called with
__reduce__(self) == <<self.cls._currency_code, DecStr(self.d)>>

\* _make_money(currency_code, value); id is the identity of the class built
_make_money(currency_code, value, id) ==
    Then(MoneyMaker(currency_code, id),
         LAMBDA cls : new_money(cls, PyStr(value)))

-----------------------------------------------------------------------------
(* Binary operators as the interpreter dispatches them when one operand,   *)
(* at least, is a money value: the left operand's method, or the right     *)
(* operand's reflected method when the left operand is no money value      *)
(* (int, float, str and None do not handle a Decimal; a money class        *)
(* overrides the reflected methods of Decimal, so they precede Decimal's)  *)

PyAdd(a, b) == IF a.ty = "Money" THEN __add__(a, b) ELSE __radd__(b, a)

PySub(a, b) == IF a.ty = "Money" THEN __sub__(a, b) ELSE __rsub__(b, a)

PyMul(a, b) == IF a.ty = "Money" THEN __mul__(a, b) ELSE __rmul__(b, a)

\* a / b in a module without the division of the future
PyDiv(a, b) == IF a.ty = "Money" THEN __div__(a, b) ELSE __rdiv__(b, a)

\* a / b in a module with `from __future__ import division`
PyTrueDiv(a, b) ==
    IF a.ty = "Money" THEN __truediv__(a, b) ELSE __rtruediv__(b, a)

-----------------------------------------------------------------------------
(* State *)

NoRes == [op |-> "none"]

Result(op, a, b, out) == [op |-> op, a |-> a, b |-> b, out |-> out]

\* the log after one more call MoneyMaker(arg)
Called(arg) ==
    Append(calls, [arg |-> arg, out |-> MoneyMaker(arg, Len(calls) + 1)])

RECURSIVE CallLog(_)
\* the log of calling MoneyMaker with each argument of a sequence in turn
CallLog(args) ==
    IF Len(args) = 0 THEN <<>>
    ELSE Append(CallLog(SubSeq(args, 1, Len(args) - 1)),
                [arg |-> args[Len(args)],
                 out |-> MoneyMaker(args[Len(args)], Len(args))])

\* the money classes a shop sets up when it is loaded: two modules build a
\* class for the euro each
ImportCalls == CallLog(<<"EUR", "JPY", "eur">>)

ImportClasses ==
    {ImportCalls[i].out.val : i \in {j \in DOMAIN ImportCalls : ImportCalls[j].out.ok}}

\* the decimals with a coefficient up to n and an exponent in lo..hi, and NaN
Decimals(n, lo, hi) ==
    {Dec(s, i, e) : s \in {0, 1}, i \in 0..n, e \in lo..hi} \cup {DecNaN}

\* money operands of the arithmetic
MoneyOperands ==
    {Money(c, d) : c \in ImportClasses, d \in Decimals(MaxInt, -MaxScale, 0)}

\* operands that are no money values; the coefficients of the numbers have
\* the prime factors 2 and 5 alone, so the quotients by them are exact
PlainOperands ==
    {PyInt(0), PyInt(1), PyInt(2), PyFloat(0, 0), PyFloat(1, 1), PyNone,
     PyDecimal(Dec(0, 0, 0)), PyDecimal(Dec(0, 25, -1)), PyStr(<<"1">>)}

Init ==
    /\ calls = ImportCalls
    /\ x \in MoneyOperands
    /\ y \in MoneyOperands \cup PlainOperands
    /\ res = NoRes
    /\ _serializer_classes = <<>>
    /\ threads = <<>>

\* x + y
Add ==
    /\ res' = Result("add", x, y, PyAdd(x, y))
    /\ UNCHANGED <<calls, x, y, _serializer_classes, threads>>

\* y + x for a y that is no money value
RAdd ==
    /\ y.ty # "Money"
    /\ res' = Result("add", y, x, PyAdd(y, x))
    /\ UNCHANGED <<calls, x, y, _serializer_classes, threads>>

\* x - y
Sub ==
    /\ res' = Result("sub", x, y, PySub(x, y))
    /\ UNCHANGED <<calls, x, y, _serializer_classes, threads>>

\* y - x for a y that is no money value
RSub ==
    /\ y.ty # "Money"
    /\ res' = Result("sub", y, x, PySub(y, x))
    /\ UNCHANGED <<calls, x, y, _serializer_classes, threads>>

\* -x
Neg ==
    /\ res' = Result("neg", x, PyNone, __neg__(x))
    /\ UNCHANGED <<calls, x, y, _serializer_classes, threads>>

\* x * y
Mul ==
    /\ res' = Result("mul", x, y, PyMul(x, y))
    /\ UNCHANGED <<calls, x, y, _serializer_classes, threads>>

\* y * x for a y that is no money value
RMul ==
    /\ y.ty # "Money"
    /\ res' = Result("mul", y, x, PyMul(y, x))
    /\ UNCHANGED <<calls, x, y, _serializer_classes, threads>>

\* x / y
Div ==
    /\ res' = Result("div", x, y, PyDiv(x, y))
    /\ UNCHANGED <<calls, x, y, _serializer_classes, threads>>

\* y / x for a y that is no money value
RDiv ==
    /\ y.ty # "Money"
    /\ res' = Result("div", y, x, PyDiv(y, x))
    /\ UNCHANGED <<calls, x, y, _serializer_classes, threads>>

\* x / y under the division of the future
TrueDiv ==
    /\ res' = Result("truediv", x, y, PyTrueDiv(x, y))
    /\ UNCHANGED <<calls, x, y, _serializer_classes, threads>>

\* y / x under the division of the future, for a y that is no money value
RTrueDiv ==
    /\ y.ty # "Money"
    /\ res' = Result("truediv", y, x, PyTrueDiv(y, x))
    /\ UNCHANGED <<calls, x, y, _serializer_classes, threads>>

\* x ** y, pow(x, y)
Pow ==
    /\ res' = Result("pow", x, y, __pow__(x, y))
    /\ UNCHANGED <<calls, x, y, _serializer_classes, threads>>

\* x <op> y
Compare ==
    /\ \E op \in CompareOps :
         \E out \in CompareOutcomes(op, x, y) :
            res' = Result(op, x, y, out)
    /\ UNCHANGED <<calls, x, y, _serializer_classes, threads>>

\* type(x)(y): a value of x's class built from the source y
Construct ==
    /\ res' = Result("new", x, y, new_money(x.cls, y))
    /\ UNCHANGED <<calls, x, y, _serializer_classes, threads>>

Next ==
    \/ Add \/ RAdd \/ Sub \/ RSub \/ Neg \/ Mul \/ RMul
    \/ Div \/ RDiv \/ TrueDiv \/ RTrueDiv \/ Pow
    \/ Compare \/ Construct

Spec == Init /\ [][Next]_vars

-----------------------------------------------------------------------------
(* The factory: a sequence of MoneyMaker calls *)

InitFactory ==
    /\ calls = <<>>
    /\ x = PyNone
    /\ y = PyNone
    /\ res = NoRes
    /\ _serializer_classes = <<>>
    /\ threads = <<>>

\* MoneyMaker(arg): one more class, or the error
TypeFor ==
    /\ Len(calls) < MaxCalls
    /\ \E arg \in CodeArgs \cup {"None"} :
          /\ calls' = Called(arg)
          /\ res' = Result("MoneyMaker", PyStr(<<arg>>), PyNone,
                           calls'[Len(calls')].out)
    /\ UNCHANGED <<x, y, _serializer_classes, threads>>

NextFactory == TypeFor

SpecFactory == InitFactory /\ [][NextFactory]_vars

-----------------------------------------------------------------------------
(* Construction: a money class called with a source *)

\* numeric strings, each with the decimal Decimal.__new__ builds from it
NumericLiterals ==
    {<<<<"0">>, Dec(0, 0, 0)>>,
     <<<<"1", ".", "5", "0">>, Dec(0, 150, -2)>>,
     <<<<"-", "0", ".", "0", "0", "1">>, Dec(1, 1, -3)>>,
     <<<<"+", "1", "2">>, Dec(0, 12, 0)>>,
     <<<<"0", "0", "7">>, Dec(0, 7, 0)>>,
     <<<<".", "5">>, Dec(0, 5, -1)>>,
     <<<<"5", ".">>, Dec(0, 5, 0)>>,
     <<<<"1", "E", "2">>, Dec(0, 1, 2)>>,
     <<<<"1", ".", "2", "E", "-", "3">>, Dec(0, 12, -4)>>,
     <<<<"-", "0">>, Dec(1, 0, 0)>>}

\* strings the parser of Decimal rejects
UnparsableStrings ==
    {<<"a", "b", "c">>, <<"1", ".", "2", ".", "3">>, <<"1", ",", "5">>,
     <<".">>, <<"-">>, <<"-", "-", "1">>, <<"1", "E">>, <<"E", "2">>,
     <<"1", "2", "x">>, <<"$", "5">>}

\* the sources a money class is called with: none, None, the empty string,
\* strings, ints, a float, plain decimals, an object, money values (those
\* of the numeric strings among them)
Sources ==
    {NoArg, PyNone, PyStr(<<>>), PyObject, PyFloat(1, 1)}
    \cup {PyStr(l[1]) : l \in NumericLiterals}
    \cup {PyStr(s) : s \in UnparsableStrings}
    \cup {PyInt(n) : n \in -MaxInt..MaxInt}
    \cup {PyDecimal(d) : d \in Decimals(MaxInt, -MaxScale, 0)}
    \cup MoneyOperands
    \cup {Money(c, l[2]) : c \in ImportClasses, l \in NumericLiterals}

InitNew ==
    /\ calls = ImportCalls
    /\ x \in {Money(c, DecNaN) : c \in ImportClasses}
    /\ y \in Sources
    /\ res = NoRes
    /\ _serializer_classes = <<>>
    /\ threads = <<>>

NextNew == Construct

SpecNew == InitNew /\ [][NextNew]_vars

-----------------------------------------------------------------------------
(* Conversions of one money value *)

\* the money values converted
ConvOperands ==
    {Money(c, d) : c \in ImportClasses,
                   d \in Decimals(MaxCoeff, -MaxFrac, MaxExp)}

InitConv ==
    /\ calls = ImportCalls
    /\ x \in ConvOperands
    /\ y = PyNone
    /\ res = NoRes
    /\ _serializer_classes = <<>>
    /\ threads = <<>>

\* type(x)(str(x.as_decimal()))
RoundTrip ==
    /\ res' = Result("roundtrip", x, PyStr(DecStr(as_decimal(x).d)),
                     new_money(x.cls, PyStr(DecStr(as_decimal(x).d))))
    /\ UNCHANGED <<calls, x, y, _serializer_classes, threads>>

\* pickle.loads(pickle.dumps(x)): _make_money(*x.__reduce__()[1]), which
\* builds a class of its own
Pickle ==
    /\ Len(calls) < MaxCalls
    /\ calls' = Called(__reduce__(x)[1])
    /\ res' = Result("pickle", x, PyStr(__reduce__(x)[2]),
                     _make_money(__reduce__(x)[1], __reduce__(x)[2],
                                 Len(calls) + 1))
    /\ UNCHANGED <<x, y, _serializer_classes, threads>>

\* x.as_decimal()
AsDecimal ==
    /\ res' = Result("as_decimal", x, PyNone, Ok(as_decimal(x)))
    /\ UNCHANGED <<calls, x, y, _serializer_classes, threads>>

\* x.as_integer()
AsInteger ==
    /\ res' = Result("as_integer", x, PyNone, as_integer(x))
    /\ UNCHANGED <<calls, x, y, _serializer_classes, threads>>

\* unicode(x)
Unicode ==
    /\ res' = Result("unicode", x, PyNone, __unicode__(x))
    /\ UNCHANGED <<calls, x, y, _serializer_classes, threads>>

\* str(x)
Str ==
    /\ res' = Result("str", x, PyNone, __str__(x))
    /\ UNCHANGED <<calls, x, y, _serializer_classes, threads>>

\* format(x, specifier)
Format ==
    /\ \E specifier \in Specifiers :
          res' = Result("format", x, PyStr(specifier),
                        __format__(x, specifier))
    /\ UNCHANGED <<calls, x, y, _serializer_classes, threads>>

NextConv ==
    \/ RoundTrip \/ Pickle \/ AsDecimal \/ AsInteger
    \/ Unicode \/ Str \/ Format

SpecConv == InitConv /\ [][NextConv]_vars

-----------------------------------------------------------------------------
(* The registry of serializers: shop/rest/serializers.py *)

\* a class object: its identity, its __name__ and the identities of the
\* classes of its method resolution order
PyClass(id, name, ancestors) ==
    [id |-> id, name |-> name, ancestors |-> ancestors]

\* rest_framework.serializers.ModelSerializer
ModelSerializer == PyClass(-1, "ModelSerializer", {-1})

\* ProductCommonSerializer(serializers.ModelSerializer)
ProductCommonSerializer == PyClass(-2, "ProductCommonSerializer", {-2, -1})

\* RegistryMixin(object)
RegistryMixin == PyClass(-3, "RegistryMixin", {-3})

\* a class of the merchant that is no serializer, mixed into serializers
SomeMixin == PyClass(-4, "SomeMixin", {-4})

\* issubclass(a, b)
issubclass(a, b) == b.id \in a.ancestors

\* SerializerMetaclass.__new__(cls, clsname, bases, attrs): a class object
\* of its own
SerializerClass(clsname, bases, id) ==
    PyClass(id, clsname,
            {id} \cup UNION {bases[i].ancestors : i \in DOMAIN bases})

\* the keys of the registry under which new_class overrides the class
\* registered
Overridable(registry, new_class) ==
    {base_name \in DOMAIN registry : issubclass(new_class, registry[base_name])}

\* a call of the metaclass outcome: what it returns or raises, and the
\* registry it leaves
Registered(out, registry) == [out |-> out, registry |-> registry]

\* RegistryMetaclass.__new__(cls, clsname, bases, attrs): the outcomes of a
\* class statement.  The loop overrides the first key in the order of the
\* dict that the new class derives from, any of them here
RegistryMetaclass(registry, clsname, bases, id) ==
    IF ~issubclass(bases[Len(bases)], ModelSerializer)
    THEN {Registered(Raise(ErrImproperlyConfigured), registry)}
    ELSE IF bases[1].id = RegistryMixin.id
    THEN {Registered(Ok(SerializerClass(clsname, Tail(bases), id)),
                     (clsname :> SerializerClass(clsname, Tail(bases), id))
                         @@ registry)}
    ELSE IF Overridable(registry, SerializerClass(clsname, bases, id)) # {}
    THEN {Registered(Ok(SerializerClass(clsname, bases, id)),
                     [registry EXCEPT
                          ![base_name] = SerializerClass(clsname, bases, id)]) :
             base_name \in Overridable(registry,
                                       SerializerClass(clsname, bases, id))}
    ELSE {Registered(Raise(IF bases[1].name \in DOMAIN registry
                           THEN ErrImproperlyConfigured
                           ELSE ErrKeyError),
                     registry)}

\* 'Base' + name for the names looked up
BaseName(name) ==
    CASE name = "ProductSummarySerializer" -> "BaseProductSummarySerializer"
      [] name = "CustomerSerializer"       -> "BaseCustomerSerializer"
      [] OTHER                             -> "Base" \o name

\* RegistryMetaclass.get_serializer_class(cls, name)
get_serializer_class(registry, name) ==
    IF BaseName(name) \in DOMAIN registry
    THEN Ok(registry[BaseName(name)])
    ELSE Raise(ErrKeyError)

\* the base serializers the module declares, each with its bases
BaseDeclarations ==
    {<<"BaseProductSummarySerializer",
       <<RegistryMixin, ProductCommonSerializer>>>>,
     <<"BaseCustomerSerializer", <<RegistryMixin, ModelSerializer>>>>}

\* the serializer classes defined so far
DefinedClasses ==
    {calls[i].out.val : i \in {j \in DOMAIN calls : calls[j].out.ok}}

\* the bases of a class statement of the merchant: a class defined so far,
\* alone or with a mixin before or after it
MerchantBases ==
    UNION {{<<c>>, <<SomeMixin, c>>, <<c, SomeMixin>>} : c \in DefinedClasses}

\* the names get_serializer_class is called with
LookupNames == {"ProductSummarySerializer", "CustomerSerializer"}

InitRegistry ==
    /\ calls = <<>>
    /\ x = PyNone
    /\ y = PyNone
    /\ res = NoRes
    /\ _serializer_classes = <<>>
    /\ threads = <<>>

\* the class statement `class clsname(bases)` under the metaclass
ClassStatement(clsname, bases) ==
    \E r \in RegistryMetaclass(_serializer_classes, clsname, bases,
                               Len(calls) + 1) :
        /\ calls' = Append(calls, [clsname |-> clsname, bases |-> bases,
                                   out |-> r.out])
        /\ _serializer_classes' = r.registry
        /\ res' = Result("class", [clsname |-> clsname, bases |-> bases],
                         _serializer_classes, r.out)

\* a base serializer of the module is declared, once
DeclareBase ==
    /\ Len(calls) < MaxDefs
    /\ \E decl \in BaseDeclarations :
          /\ decl[1] \notin DOMAIN _serializer_classes
          /\ ClassStatement(decl[1], decl[2])
    /\ UNCHANGED <<x, y, threads>>

\* the merchant defines a serializer class
DefineSerializer ==
    /\ Len(calls) < MaxDefs
    /\ \E bases \in MerchantBases : ClassStatement("MySerializer", bases)
    /\ UNCHANGED <<x, y, threads>>

\* RegistryMetaclass.get_serializer_class(name)
GetSerializerClass ==
    /\ \E name \in LookupNames :
          res' = Result("get_serializer_class", name, _serializer_classes,
                        get_serializer_class(_serializer_classes, name))
    /\ UNCHANGED <<calls, x, y, _serializer_classes, threads>>

NextRegistry == DeclareBase \/ DefineSerializer \/ GetSerializerClass

SpecRegistry == InitRegistry /\ [][NextRegistry]_vars

-----------------------------------------------------------------------------
(* Threads calling MoneyMaker: each call runs the statements of           *)
(* MoneyMaker.__new__ one after the other on its local variables, and the  *)
(* statements of the threads interleave.  The log keeps the calls in the   *)
(* order they return.                                                      *)

ThreadIds == 1..MaxThreads

\* the currency codes the threads call MoneyMaker with
ThreadArgs == {"EUR", "eur", "XXX"}

\* a thread outside MoneyMaker
Idle == [pc |-> "idle"]

\* the threads inside MoneyMaker
Running == {t \in ThreadIds : threads[t].pc # "idle"}

InitThreads ==
    /\ calls = <<>>
    /\ x = PyNone
    /\ y = PyNone
    /\ res = NoRes
    /\ _serializer_classes = <<>>
    /\ threads = [t \in ThreadIds |-> Idle]

\* the thread returns from MoneyMaker with an outcome
Return(t, out) ==
    /\ calls' = Append(calls, [arg        |-> threads[t].arg,
                               out        |-> out,
                               later      |-> threads[t].later,
                               overlapped |-> threads[t].overlapped])
    /\ threads' = [threads EXCEPT ![t] = Idle]
    /\ res' = Result("MoneyMaker", PyStr(<<threads[t].arg>>), PyNone, out)

\* thread t calls MoneyMaker(arg).  The call is a later one when calls have
\* returned and none is running; it overlaps the calls running
Call(t) ==
    /\ threads[t].pc = "idle"
    /\ Len(calls) + Cardinality(Running) < MaxThreadCalls
    /\ \E arg \in ThreadArgs :
          threads' =
              [u \in ThreadIds |->
                  IF u = t
                  THEN [pc            |-> "normalize",
                        arg           |-> arg,
                        currency_code |-> arg,
                        cents         |-> DecNaN,
                        later         |-> Running = {} /\ Len(calls) > 0,
                        overlapped    |-> Running # {}]
                  ELSE IF u \in Running
                  THEN [threads[u] EXCEPT !.overlapped = TRUE]
                  ELSE threads[u]]
    /\ UNCHANGED <<calls, x, y, res, _serializer_classes>>

\* lines 194-197: the default currency, or the code in upper case
Normalize(t) ==
    /\ threads[t].pc = "normalize"
    /\ threads' = [threads EXCEPT
           ![t].currency_code = IF threads[t].arg = "None"
                                THEN DEFAULT_CURRENCY
                                ELSE upper(threads[t].arg),
           ![t].pc = "lookup"]
    /\ UNCHANGED <<calls, x, y, res, _serializer_classes>>

\* lines 198-199: a code the table lacks raises ValueError
Lookup(t) ==
    /\ threads[t].pc = "lookup"
    /\ IF threads[t].currency_code \notin DOMAIN CURRENCIES
       THEN Return(t, Raise(ErrUnknownCurrency))
       ELSE /\ threads' = [threads EXCEPT ![t].pc = "cents"]
            /\ UNCHANGED <<calls, res>>
    /\ UNCHANGED <<x, y, _serializer_classes>>

\* lines 200-206: the quantum of the currency
ComputeCents(t) ==
    /\ threads[t].pc = "cents"
    /\ threads' = [threads EXCEPT
           ![t].cents = Cents(threads[t].currency_code),
           ![t].pc = "type"]
    /\ UNCHANGED <<calls, x, y, res, _serializer_classes>>

\* lines 207-210: a class object of its own is built and returned
BuildClass(t) ==
    /\ threads[t].pc = "type"
    /\ Return(t, Ok([id             |-> Len(calls) + 1,
                     name           |-> <<"MoneyIn", threads[t].currency_code>>,
                     _currency_code |-> threads[t].currency_code,
                     _currency      |-> CURRENCIES[threads[t].currency_code],
                     _cents         |-> threads[t].cents]))
    /\ UNCHANGED <<x, y, _serializer_classes>>

NextThreads ==
    \E t \in ThreadIds :
        \/ Call(t) \/ Normalize(t) \/ Lookup(t)
        \/ ComputeCents(t) \/ BuildClass(t)

SpecThreads == InitThreads /\ [][NextThreads]_vars

-----------------------------------------------------------------------------
(* Properties *)

IsMoney(v) == v.ty = "Money"

\* a money value whose amount is defined (no NaN)
IsDefined(v) == v.ty = "Money" /\ ~v.d.is_special

\* the undefined money value of some currency
IsUndefined(v) == v.ty = "Money" /\ v.d.is_special

CodeOf(v) == v.cls._currency_code

\* the int or float literal zero
IsZeroLiteral(v) == v.ty \in {"int", "float"} /\ v.n = 0

\* the last operation was op applied to two money values
OnMoneys(ops) ==
    res.op \in ops /\ IsMoney(res.a) /\ IsMoney(res.b)

\* the call returned a money value of v's currency that == finds equal to v
ReturnsEqual(out, v) ==
    /\ out.ok
    /\ IsMoney(out.val)
    /\ CodeOf(out.val) = CodeOf(v)
    /\ DecEq(out.val.d, v.d)

\* C1: adding or subtracting two money values of different currencies, both
\* amounts defined and not zero, raises the error of _assert_addable and
\* returns nothing, whichever operand is on the left.
C1_CrossCurrencyAddSubFails ==
    (/\ OnMoneys({"add", "sub"})
     /\ CodeOf(res.a) # CodeOf(res.b)
     /\ IsDefined(res.a) /\ res.a.d.int # 0
     /\ IsDefined(res.b) /\ res.b.d.int # 0)
    => res.out = Raise(ErrAddable)

C1_Witness ==
    /\ OnMoneys({"sub"})
    /\ CodeOf(res.a) = "JPY" /\ CodeOf(res.b) = "EUR"
    /\ IsDefined(res.a) /\ res.a.d.int # 0
    /\ IsDefined(res.b) /\ res.b.d.int # 0
    /\ res.out = Raise(ErrAddable)

\* C2: comparing two money values of different currencies with <, <=, ==,
\* > or >= raises an error instead of returning a boolean.
C2_CrossCurrencyCompareFails ==
    (OnMoneys(CompareOps) /\ CodeOf(res.a) # CodeOf(res.b))
    => ~res.out.ok

\* C3: building a money value of one currency from a money value of
\* another currency raises an error; no value of the first currency with
\* the amount of the second is returned.
C3_CrossCurrencyConstructFails ==
    (OnMoneys({"new"}) /\ CodeOf(res.a) # CodeOf(res.b))
    => ~res.out.ok

\* the last operation added the literal zero and a money value
LiteralZeroAdded ==
    /\ res.op = "add"
    /\ \/ IsMoney(res.a) /\ IsZeroLiteral(res.b)
       \/ IsZeroLiteral(res.a) /\ IsMoney(res.b)

\* the money operand of an operation with one money operand
MoneyOperand == IF IsMoney(res.a) THEN res.a ELSE res.b

\* C4 as claimed: for every money value v, v + 0 and 0 + v return a value
\* of v's currency equal to v.
C4_LiteralZeroIdentityOfAnyValue ==
    LiteralZeroAdded => ReturnsEqual(res.out, MoneyOperand)

\* C4 as amended: for every money value v with a defined amount, v + 0 and
\* 0 + v (int or float zero) return a value of v's currency equal to v.
C4_LiteralZeroIdentity ==
    (LiteralZeroAdded /\ IsDefined(MoneyOperand))
    => ReturnsEqual(res.out, MoneyOperand)

C4_Witness ==
    /\ LiteralZeroAdded
    /\ res.a = PyFloat(0, 0)
    /\ IsDefined(res.b) /\ res.b.d.int # 0
    /\ ReturnsEqual(res.out, res.b)

\* a + (-b) as the handlers evaluate it
AddOfNegation(a, b) == Then(__neg__(b), LAMBDA n : PyAdd(a, n))

\* both calls returned money values of one currency that == finds equal
OutcomesEqual(o1, o2) == o1.ok /\ o2.ok /\ ReturnsEqual(o1, o2.val)

\* C5: for all money values a and b of one currency, a - b equals a + (-b).
C5_SubIsAddOfNegation ==
    (OnMoneys({"sub"}) /\ CodeOf(res.a) = CodeOf(res.b))
    => OutcomesEqual(res.out, AddOfNegation(res.a, res.b))

\* the amount is defined and a whole number of the currency's minor units
WholeMinorUnits(v) ==
    /\ IsDefined(v)
    /\ \/ v.d.exp >= -CURRENCIES[CodeOf(v)][2]
       \/ v.d.int % Pow10(-CURRENCIES[CodeOf(v)][2] - v.d.exp) = 0

\* C6 as claimed, for the values with a defined amount alone: a value of
\* v's class built from the string of v.as_decimal() is equal to v.
C6_RoundTripOfAnyValue ==
    (res.op = "roundtrip" /\ IsDefined(res.a))
    => ReturnsEqual(res.out, res.a)

\* C6 as amended: a value of v's class built from the string of
\* v.as_decimal() is equal to v exactly when v's amount is defined and a
\* whole number of the currency's minor units; as_decimal rounds any
\* further digits away and the undefined value is equal to nothing.
C6_RoundTripOfQuantized ==
    res.op = "roundtrip"
    => /\ res.out.ok
       /\ ReturnsEqual(res.out, res.a) <=> WholeMinorUnits(res.a)

C6_Witness ==
    /\ res.op = "roundtrip"
    /\ WholeMinorUnits(res.a)
    /\ res.a.d.int = 15 /\ res.a.d.exp = -1 /\ CodeOf(res.a) = "EUR"
    /\ ReturnsEqual(res.out, res.a)
    /\ res.b = PyStr(<<"1", ".", "5", "0">>)

\* C7: for every money value v with a defined amount, _make_money applied
\* to the pair of v.__reduce__() returns a value of v's currency code whose
\* amount equals v's and keeps every digit: sign, coefficient and exponent
\* are those of v.
C7_PickleRoundTrip ==
    (res.op = "pickle" /\ IsDefined(res.a))
    => /\ ReturnsEqual(res.out, res.a)
       /\ res.out.val.d = res.a.d

C7_Witness ==
    /\ res.op = "pickle"
    /\ IsDefined(res.a)
    /\ res.a.d.int = 15 /\ res.a.d.exp = -3 /\ CodeOf(res.a) = "JPY"
    /\ res.b = PyStr(<<"0", ".", "0", "1", "5">>)
    /\ ReturnsEqual(res.out, res.a)
    /\ res.out.val.d = res.a.d

\* two arguments of MoneyMaker that name one currency code in upper case
SameCodeArg(a, b) == a = b \/ {a, b} = {"eur", "EUR"}

\* two classes with the same attributes, whatever their identity
EquivalentClasses(c1, c2) == [c1 EXCEPT !.id = 0] = [c2 EXCEPT !.id = 0]

C9_UndefinedAbsorbedOnAdd ==
    (OnMoneys({"add"}) /\ CodeOf(res.a) = CodeOf(res.b))
    => /\ (IsUndefined(res.a) /\ IsDefined(res.b))
          => ReturnsEqual(res.out, res.b)
       /\ (IsDefined(res.a) /\ IsUndefined(res.b))
          => ReturnsEqual(res.out, res.a)

C9_Witness ==
    /\ OnMoneys({"add"})
    /\ CodeOf(res.a) = CodeOf(res.b)
    /\ IsUndefined(res.a)
    /\ IsDefined(res.b) /\ res.b.d.int # 0
    /\ ReturnsEqual(res.out, res.b)

\* C10: multiplying a money value by a money value, of the same or of
\* another currency and in either order, raises the error of
\* _assert_multipliable; no product is returned.
C10_MoneyTimesMoneyFails ==
    OnMoneys({"mul"}) => res.out = Raise(ErrMultipliable)

C10_Witness ==
    /\ OnMoneys({"mul"})
    /\ CodeOf(res.a) = CodeOf(res.b)
    /\ IsDefined(res.a) /\ IsDefined(res.b)
    /\ res.out = Raise(ErrMultipliable)

\* C11: every division whose divisor is a money value raises the error of
\* _assert_dividable, whatever the dividend: a plain number, None, a string,
\* a plain decimal or a money value of the same or another currency, under
\* either division operator.
C11_DivisionByMoneyFails ==
    (res.op \in {"div", "truediv"} /\ IsMoney(res.b))
    => res.out = Raise(ErrDividable)

C11_Witness ==
    /\ res.op = "div"
    /\ res.a = PyInt(1)
    /\ IsMoney(res.b) /\ IsDefined(res.b) /\ res.b.d.int # 0
    /\ res.out = Raise(ErrDividable)

\* C12: raising a money value to a power raises an error for every money
\* value, defined or not, and every exponent, the ints 0 and 1 included.
C12_PowFails ==
    res.op = "pow" => res.out = Raise(ErrPow)

C12_Witness ==
    /\ res.op = "pow"
    /\ IsDefined(res.a) /\ res.a.d.int # 0
    /\ res.b = PyInt(1)
    /\ res.out = Raise(ErrPow)

\* the minor digits of a money value's currency
MinorDigits(v) == CURRENCIES[CodeOf(v)][2]

\* the finite decimal q differs from the finite decimal v by half a unit
\* of q's last place at most; e is the smaller of their exponents
NearestAt(v, q, e) ==
    2 * Abs(Scaled(v, e) - Scaled(q, e)) <= Pow10(q.exp - e)

\* C13: for a defined amount as_decimal() returns a plain decimal with
\* exactly minor_digits decimal places of the value's currency, and no
\* decimal with that many places is nearer to the amount.
C13_AsDecimalQuantized ==
    (res.op = "as_decimal" /\ IsDefined(res.a))
    => /\ res.out.ok
       /\ res.out.val.ty = "Decimal"
       /\ ~res.out.val.d.is_special
       /\ res.out.val.d.exp = -MinorDigits(res.a)
       /\ res.out.val.d.sign = res.a.d.sign
       /\ NearestAt(res.a.d, res.out.val.d,
                    Min(res.a.d.exp, res.out.val.d.exp))

C13_Witness ==
    /\ res.op = "as_decimal"
    /\ CodeOf(res.a) = "JPY"
    /\ res.a.d = Dec(0, 107, -1)
    /\ res.out = Ok(PyDecimal(Dec(0, 11, 0)))

\* C14: for a defined amount as_integer() returns the int of as_decimal()
\* times 10^minor_digits: the amount in minor units, rounded as as_decimal()
\* rounds it.
C14_AsIntegerIsMinorUnits ==
    (res.op = "as_integer" /\ IsDefined(res.a))
    => /\ res.out.ok
       /\ res.out.val.ty = "int"
       /\ res.out.val.n = Scaled(as_decimal(res.a).d, -MinorDigits(res.a))

C14_Witness ==
    /\ res.op = "as_integer"
    /\ CodeOf(res.a) = "EUR"
    /\ res.a.d = Dec(0, 134, -2)
    /\ res.out = Ok(PyInt(134))

\* a source that is absent: no argument, None or the empty string
IsAbsentSource(v) == v \in {NoArg, PyNone, PyStr(<<>>)}

\* C15 as claimed: a money class called without a source, with None or with
\* the empty string returns the undefined value of its currency and never
\* fails.
C15_AbsentOrEmptyIsUndefined ==
    (res.op = "new" /\ IsAbsentSource(res.b))
    => /\ res.out.ok
       /\ IsUndefined(res.out.val)
       /\ CodeOf(res.out.val) = CodeOf(res.a)

\* C15 as amended: a money class called without a source or with None
\* returns the undefined value of its currency, which is not equal to zero,
\* and never fails; called with the empty string it raises the error of an
\* unparsable source and returns nothing.
C15_AbsentIsUndefinedEmptyFails ==
    res.op = "new"
    => /\ res.b \in {NoArg, PyNone}
          => /\ res.out.ok
             /\ IsUndefined(res.out.val)
             /\ CodeOf(res.out.val) = CodeOf(res.a)
             /\ ~DecEq(res.out.val.d, Dec(0, 0, 0))
       /\ res.b = PyStr(<<>>) => res.out = Raise(ErrNewMoney)

C15_Witness ==
    /\ res.op = "new"
    /\ res.b = PyNone
    /\ CodeOf(res.a) = "JPY"
    /\ res.out.ok /\ IsUndefined(res.out.val)
    /\ CodeOf(res.out.val) = "JPY"

\* C16: a money class called with a string the parser rejects, or with an
\* object that is no number, raises the error of new_money and returns
\* nothing; called with a numeric string, an int or a plain decimal it
\* returns a value of its currency with every digit of the source: the
\* sign, the coefficient and the exponent written.
C16_UnparsableFailsNumericExact ==
    res.op = "new"
    => /\ (res.b = PyObject
           \/ \E s \in UnparsableStrings : res.b = PyStr(s))
          => res.out = Raise(ErrNewMoney)
       /\ \A l \in NumericLiterals :
             res.b = PyStr(l[1]) => res.out = Ok(Money(res.a.cls, l[2]))
       /\ res.b.ty = "int"
          => res.out = Ok(Money(res.a.cls, FromSigned(res.b.n, 0)))
       /\ res.b.ty = "Decimal"
          => res.out = Ok(Money(res.a.cls, res.b.d))

C16_Witness ==
    /\ res.op = "new"
    /\ res.b = PyStr(<<"1", ".", "2", ".", "3">>)
    /\ res.out = Raise(ErrNewMoney)

\* C17: MoneyMaker called with a code returns a class exactly when the
\* upper case of the code is in the currency table, and the class carries
\* that upper case code and its table entry; with any other code it raises
\* the error of an unknown currency and builds no class.
C17_KnownCodesOnly ==
    \A i \in DOMAIN calls :
        calls[i].arg # "None"
        => IF upper(calls[i].arg) \in Codes
           THEN /\ calls[i].out.ok
                /\ calls[i].out.val._currency_code = upper(calls[i].arg)
                /\ calls[i].out.val._currency
                       = CURRENCIES[upper(calls[i].arg)]
           ELSE calls[i].out = Raise(ErrUnknownCurrency)

C17_Witness ==
    \E i, j \in DOMAIN calls :
        /\ calls[i].arg = "XXX"
        /\ calls[i].out = Raise(ErrUnknownCurrency)
        /\ calls[j].arg = "eur"
        /\ calls[j].out.ok
        /\ calls[j].out.val._currency_code = "EUR"

\* the piece p occurs in the text s
HasPiece(s, p) == \E i \in DOMAIN s : s[i] = p

\* the pieces ps occur in the text s one after the other
HasPieces(s, ps) ==
    \E i \in 1..(Len(s) - Len(ps) + 1) : SubSeq(s, i, i + Len(ps) - 1) = ps

\* the text s shows no digit and no letter of NaN
NoNumeral(s) == \A i \in DOMAIN s : ~IsDigit(s[i]) /\ s[i] \notin {"N", "a"}

\* C18: unicode(), str() and format() of the undefined value of a currency
\* return a text with the dash in place of the amount and with the code,
\* the symbol and the name of the currency; no digit and no NaN is shown.
C18_UndefinedFormatsAsDash ==
    (res.op \in {"unicode", "str", "format"} /\ IsUndefined(res.a))
    => /\ res.op \in {"unicode", "format"}
          => /\ res.out.ok
             /\ res.out.val.ty = "unicode"
             /\ HasPiece(res.out.val.s, EnDash)
             /\ HasPiece(res.out.val.s, CodeOf(res.a))
             /\ HasPiece(res.out.val.s, CURRENCIES[CodeOf(res.a)][3])
             /\ HasPiece(res.out.val.s, CURRENCIES[CodeOf(res.a)][4])
             /\ NoNumeral(res.out.val.s)
       /\ res.op = "str"
          => /\ res.out.ok
             /\ res.out.val.ty = "str"
             /\ HasPieces(res.out.val.s, <<"xE2", "x80", "x93">>)
             /\ HasPiece(res.out.val.s, CodeOf(res.a))
             /\ HasPiece(res.out.val.s, CURRENCIES[CodeOf(res.a)][4])
             /\ NoNumeral(res.out.val.s)

C18_Witness ==
    /\ res.op = "format"
    /\ IsUndefined(res.a)
    /\ CodeOf(res.a) = "JPY"
    /\ res.out = Ok(PyUnicode(<<"JPY-symbol", " ", EnDash, " ", "JPY", " (",
                                "Yen", ")">>))

\* the base serializer declared under a key of the registry
DeclaredBase(base_name) ==
    calls[CHOOSE i \in DOMAIN calls :
             /\ calls[i].clsname = base_name
             /\ calls[i].bases[1] = RegistryMixin
             /\ calls[i].out.ok].out.val

\* the class of the statement derives from the class c
DerivesFrom(bases, c) == \E i \in DOMAIN bases : issubclass(bases[i], c)

\* the class statement derives from a base serializer that the registry
\* had an override of, and from no class the registry held
SecondOverride ==
    /\ res.op = "class"
    /\ res.a.bases[1] # RegistryMixin
    /\ \E base_name \in DOMAIN res.b :
          /\ DerivesFrom(res.a.bases, DeclaredBase(base_name))
          /\ res.b[base_name] # DeclaredBase(base_name)
    /\ \A base_name \in DOMAIN res.b :
          ~DerivesFrom(res.a.bases, res.b[base_name])

\* C19: the registry holds one class for each base serializer declared, the
\* base itself or a class deriving from it; a class statement deriving from
\* a base serializer already overridden, and not from its override, raises
\* ImproperlyConfigured and leaves the registry as it was; and
\* get_serializer_class(name) returns the class the registry holds for
\* 'Base' + name.
C19_OneOverridePerBase ==
    /\ \A base_name \in DOMAIN _serializer_classes :
          issubclass(_serializer_classes[base_name], DeclaredBase(base_name))
    /\ SecondOverride
       => /\ res.out = Raise(ErrImproperlyConfigured)
          /\ _serializer_classes = res.b
    /\ (res.op = "get_serializer_class"
            /\ BaseName(res.a) \in DOMAIN _serializer_classes)
       => res.out = Ok(_serializer_classes[BaseName(res.a)])

\* two calls of the log that returned a class for one currency code
SameCodeCalls(i, j) ==
    /\ SameCodeArg(calls[i].arg, calls[j].arg)
    /\ calls[i].out.ok /\ calls[j].out.ok

C22_UndefinedAbsorbedOnSub ==
    (OnMoneys({"sub"}) /\ CodeOf(res.a) = CodeOf(res.b))
    => /\ (IsDefined(res.a) /\ IsUndefined(res.b))
          => ReturnsEqual(res.out, res.a)
       /\ (IsUndefined(res.a) /\ IsDefined(res.b))
          => ReturnsEqual(res.out, Money(res.b.cls, DecNeg(res.b.d)))

\* C22, the half with the undefined value on the right: x - u is a value
\* of x's currency equal to x.
C22_UndefinedOnTheRightAbsorbed ==
    (OnMoneys({"sub"}) /\ CodeOf(res.a) = CodeOf(res.b)
        /\ IsDefined(res.a) /\ IsUndefined(res.b))
    => ReturnsEqual(res.out, res.a)

\* the arithmetic operations: add, subtract, negate, multiply, divide
ArithmeticOps == {"add", "sub", "neg", "mul", "div", "truediv"}

\* every add, subtract, negate, multiply and divide with a money operand
\* that returns, returns a money value (never a plain decimal) of
\* the currency of the money operand, in the class of the operand whose
\* method ran (the left one, if it is a money value).
C23_ResultKeepsCurrency ==
    (res.op \in ArithmeticOps /\ res.out.ok)
    => /\ IsMoney(res.out.val)
       /\ res.out.val.cls = MoneyOperand.cls
       /\ IsMoney(res.a) /\ IsMoney(res.b) => CodeOf(res.a) = CodeOf(res.b)

\* the frame: no arithmetic operation changes the amount or the
\* currency of an operand; the operands recorded with the outcome are the
\* operands as they are after the operation.
C23_OperandsUnchanged ==
    [][/\ x' = x /\ y' = y
       /\ res'.op \in ArithmeticOps
          => {res'.a, res'.b} \subseteq {x', y', PyNone}]_vars

\* C23: every successful arithmetic operation with a money operand returns
\* a money value of that operand's currency and leaves every operand as it
\* was.
C23_ArithmeticReturnsNewMoney ==
    []C23_ResultKeepsCurrency /\ C23_OperandsUnchanged

C23_Witness ==
    /\ res.op = "div"
    /\ IsDefined(res.a) /\ res.a.d.int # 0 /\ CodeOf(res.a) = "JPY"
    /\ res.b = PyDecimal(Dec(0, 25, -1))
    /\ res.out.ok
    /\ IsMoney(res.out.val)
    /\ CodeOf(res.out.val) = "JPY"
    /\ res.a = x /\ res.b = y

\* C24: a money class called with a money value of its own currency (of
\* the class itself or of another class with that code) returns a value of
\* the class with the slots of the source: sign, coefficient, exponent and
\* the flag of a special value, so trailing zeros and the exponent are kept
\* and the undefined value gives the undefined value; called again with
\* the value returned, it returns that value.
C24_CopyOfSameCurrency ==
    (OnMoneys({"new"}) /\ CodeOf(res.a) = CodeOf(res.b))
    => /\ res.out = Ok(Money(res.a.cls, res.b.d))
       /\ IsUndefined(res.out.val) <=> IsUndefined(res.b)
       /\ new_money(res.a.cls, res.out.val) = res.out

C24_Witness ==
    /\ OnMoneys({"new"})
    /\ CodeOf(res.a) = "JPY" /\ CodeOf(res.b) = "JPY"
    /\ res.b.d = Dec(0, 150, -2)
    /\ res.out = Ok(Money(res.a.cls, Dec(0, 150, -2)))
    /\ new_money(res.a.cls, res.out.val) = res.out

\* C25: a money value times None, and None times a money value, is the
\* undefined value of the money value's class, whether the money value is
\* defined or not; it never raises.
C25_TimesNoneIsUndefined ==
    (res.op = "mul" /\ PyNone \in {res.a, res.b})
    => res.out = Ok(Money(MoneyOperand.cls, DecNaN))

C25_Witness ==
    /\ res.op = "mul"
    /\ res.a = PyNone
    /\ IsDefined(res.b) /\ res.b.d.int # 0 /\ CodeOf(res.b) = "JPY"
    /\ res.out.ok /\ IsUndefined(res.out.val)
    /\ CodeOf(res.out.val) = "JPY"

\* C26: other - v raises the error of __rsub__ for every money value v and
\* every left operand that is no money value, the int and the float zero
\* among them; nothing is returned.
C26_ReflectedSubFails ==
    (res.op = "sub" /\ ~IsMoney(res.a) /\ IsMoney(res.b))
    => res.out = Raise(ErrRsub)

C26_Witness ==
    /\ res.op = "sub"
    /\ res.a = PyFloat(0, 0)
    /\ IsDefined(res.b) /\ res.b.d.int # 0
    /\ res.out = Raise(ErrRsub)

\* x + p, p + x or x - p for a money value x and an operand p that is no
\* money value
PlainAddedOrSubtracted ==
    \/ res.op = "add" /\ IsMoney(res.a) # IsMoney(res.b)
    \/ res.op = "sub" /\ IsMoney(res.a) /\ ~IsMoney(res.b)

\* the operand of such an operation that is no money value
PlainOperand == IF IsMoney(res.a) THEN res.b ELSE res.a

\* C27: adding an operand without a currency to a money value, in either
\* order, or subtracting it from a money value, returns a value exactly
\* when the operand is an int or a float equal to zero; with any other
\* number, a plain decimal (zero included), a string or None it raises the
\* error of different currencies.
C27_OnlyLiteralZeroIsAddable ==
    PlainAddedOrSubtracted
    => /\ res.out.ok <=> IsZeroLiteral(PlainOperand)
       /\ ~res.out.ok => res.out = Raise(ErrAddable)

C27_Witness ==
    /\ res.op = "sub"
    /\ IsDefined(res.a) /\ res.a.d.int # 0
    /\ res.b = PyDecimal(Dec(0, 0, 0))
    /\ res.out = Raise(ErrAddable)

\* an operand that is undefined or zero: the undefined money value, a money
\* value with the amount zero, or the int or float literal zero
IsUndefinedOrZero(v) ==
    \/ IsZeroLiteral(v)
    \/ IsUndefined(v)
    \/ IsDefined(v) /\ v.d.int = 0

\* the right operand of __add__ after _assert_addable: the literal zero and
\* the undefined value become the zero of self's class
Coerced(self, other) ==
    IF IsZeroLiteral(other) \/ IsUndefined(other)
    THEN Money(self.cls, Dec(0, 0, 0))
    ELSE other

\* C28: an add with an undefined left operand that returns, returns the
\* right operand after coercion in the class of the left one, so undefined
\* + undefined and undefined + 0 are the defined amount zero; and no add of
\* two operands that are undefined or zero returns an undefined value.
C28_UndefinedLeftYieldsCoercedRight ==
    (res.op = "add" /\ res.out.ok)
    => /\ IsUndefined(res.a)
          => res.out.val = Money(res.a.cls, Coerced(res.a, res.b).d)
       /\ (IsUndefinedOrZero(res.a) /\ IsUndefinedOrZero(res.b))
          => /\ IsDefined(res.out.val)
             /\ res.out.val.d.int = 0

C28_Witness ==
    /\ OnMoneys({"add"})
    /\ IsUndefined(res.a) /\ IsUndefined(res.b)
    /\ CodeOf(res.a) = "EUR" /\ CodeOf(res.b) = "EUR"
    /\ res.out = Ok(Money(res.a.cls, Dec(0, 0, 0)))

\* C29: adding or subtracting two money values of different currencies
\* raises the error of different currencies whatever the amounts: also
\* when the right operand is undefined or zero, and also when the left
\* operand is undefined.
C29_CurrencyCheckedBeforeAmounts ==
    (OnMoneys({"add", "sub"}) /\ CodeOf(res.a) # CodeOf(res.b))
    => res.out = Raise(ErrAddable)

C29_Witness ==
    /\ OnMoneys({"add"})
    /\ CodeOf(res.a) = "EUR" /\ CodeOf(res.b) = "JPY"
    /\ IsUndefined(res.a) /\ IsUndefined(res.b)
    /\ res.out = Raise(ErrAddable)

\* the value a money class builds from a numeric string
FromString(cls, s) == new_money(cls, PyStr(s)).val

\* the amount lies halfway between two neighbouring multiples of the
\* currency's minor unit
IsTie(v) ==
    /\ IsDefined(v)
    /\ v.d.exp < -MinorDigits(v)
    /\ 2 * (v.d.int % Pow10(-MinorDigits(v) - v.d.exp))
         = Pow10(-MinorDigits(v) - v.d.exp)

\* C30: as_decimal() rounds an amount halfway between two multiples of the
\* minor unit to the one with an even last digit, in every currency and
\* for either sign: JPY 10.5 gives 10 and 11.5 gives 12, EUR 0.125 gives
\* 0.12 and 0.135 gives 0.14.
C30_TiesRoundToEven ==
    res.op = "as_decimal"
    => /\ IsTie(res.a)
          => /\ res.out.val.d.int % 2 = 0
             /\ res.out.val.d.exp = -MinorDigits(res.a)
             /\ res.out.val.d.int
                  \in {res.a.d.int \div Pow10(-MinorDigits(res.a) - res.a.d.exp),
                       res.a.d.int \div Pow10(-MinorDigits(res.a) - res.a.d.exp)
                          + 1}
       /\ CodeOf(res.a) = "JPY"
          => /\ res.a = FromString(res.a.cls, <<"1", "0", ".", "5">>)
                => res.out = Ok(PyDecimal(Dec(0, 10, 0)))
             /\ res.a = FromString(res.a.cls, <<"1", "1", ".", "5">>)
                => res.out = Ok(PyDecimal(Dec(0, 12, 0)))
       /\ CodeOf(res.a) = "EUR"
          => /\ res.a = FromString(res.a.cls, <<"0", ".", "1", "2", "5">>)
                => res.out = Ok(PyDecimal(Dec(0, 12, -2)))
             /\ res.a = FromString(res.a.cls, <<"0", ".", "1", "3", "5">>)
                => res.out = Ok(PyDecimal(Dec(0, 14, -2)))

C30_Witness ==
    /\ res.op = "as_decimal"
    /\ CodeOf(res.a) = "EUR"
    /\ res.a = FromString(res.a.cls, <<"0", ".", "1", "2", "5">>)
    /\ IsTie(res.a)
    /\ res.out = Ok(PyDecimal(Dec(0, 12, -2)))

=============================================================================
